---- MODULE Spec2Model ----
(***************************************************************************)
(* A model of the import scanner of project-representation:                *)
(*   tools/get_imports_from_file.py   resolver, scanner, graph builder     *)
(*   tools/get_app_folder_dependencies.py   transitive dependency query    *)
(*   tools/get_feature_summary.py     summary request                      *)
(*   main.py                          the batch script                     *)
(*                                                                         *)
(* A Python str is a sequence of one-character strings, so that            *)
(* startswith, strip, the appending of an extension and the os.path        *)
(* functions are computed on the text, as the code computes them.          *)
(***************************************************************************)
EXTENDS Naturals, Sequences, FiniteSets

VARIABLES
    fs,            \* the filesystem: absolute normalized path -> file
    call,          \* the last call of the resolver / config locator
    resolved,      \* what resolve_import_path returned for `call`
    config,        \* what parse_tsconfig(find_tsconfig_json(..)) gave for `call`
    nodes,         \* graph store: the File nodes (their path property)
    edges,         \* graph store: the IMPORTS relationships <<source, target>>
    runs,          \* how many times create_file_dependency_graph has run
    deps,          \* the last result of get_app_folder_dependencies
    pc,            \* main.py: where the script is
    ts_files,      \* main.py: ts_files
    dependencies,  \* main.py: dependencies (the ImportRecords)
    idx,           \* main.py: position of the running loop
    item,          \* main.py: position in dependency_map.items()
    outfile        \* main.py: feature_summaries.txt, a sequence of sections

vars == <<fs, call, resolved, config, nodes, edges, runs, deps,
          pc, ts_files, dependencies, idx, item, outfile>>

resolverVars == <<call, resolved, config>>
graphVars == <<runs, deps>>
mainVars == <<pc, ts_files, dependencies, idx, item, outfile>>

(***************************************************************************)
(* Text.                                                                   *)
(***************************************************************************)

\* Python's None: no str equals it, a str being a sequence of characters.
None == <<"None">>

startswith(s, prefix) ==
    /\ Len(prefix) <= Len(s)
    /\ SubSeq(s, 1, Len(prefix)) = prefix

endswith(s, suffix) ==
    /\ Len(suffix) <= Len(s)
    /\ SubSeq(s, Len(s) - Len(suffix) + 1, Len(s)) = suffix

\* s.strip(ch): the leading and the trailing run of ch removed.
RECURSIVE lstrip(_, _)
lstrip(s, ch) ==
    IF s # <<>> /\ Head(s) = ch THEN lstrip(Tail(s), ch) ELSE s

RECURSIVE rstrip(_, _)
rstrip(s, ch) ==
    IF s # <<>> /\ s[Len(s)] = ch THEN rstrip(SubSeq(s, 1, Len(s) - 1), ch) ELSE s

strip(s, ch) == rstrip(lstrip(s, ch), ch)

\* s.split("/"), scanning s from position k; the running piece starts at `from`.
RECURSIVE splitfrom(_, _, _)
splitfrom(s, k, from) ==
    IF k > Len(s) THEN <<SubSeq(s, from, Len(s))>>
    ELSE IF s[k] = "/"
    THEN <<SubSeq(s, from, k - 1)>> \o splitfrom(s, k + 1, k + 1)
    ELSE splitfrom(s, k + 1, from)

split(s) == splitfrom(s, 1, 1)

\* "/".join(comps)
RECURSIVE slashjoin(_)
slashjoin(comps) ==
    IF comps = <<>> THEN <<>>
    ELSE IF Len(comps) = 1 THEN comps[1]
    ELSE comps[1] \o <<"/">> \o slashjoin(Tail(comps))

\* s contains sub
contains(s, sub) ==
    \E k \in 1..(Len(s) - Len(sub) + 1) : SubSeq(s, k, k + Len(sub) - 1) = sub

(***************************************************************************)
(* os.path on POSIX.                                                       *)
(***************************************************************************)

\* The directory the script runs in.
cwd == <<"/", "w">>

isabs(p) == startswith(p, <<"/">>)

\* os.path.join(a, b)
join(a, b) ==
    IF isabs(b) THEN b
    ELSE IF a = <<>> \/ endswith(a, <<"/">>) THEN a \o b
    ELSE a \o <<"/">> \o b

\* os.path.dirname(p)
dirname(p) ==
    LET cut == IF \E k \in 1..Len(p) : p[k] = "/"
               THEN CHOOSE m \in 1..Len(p) :
                        p[m] = "/" /\ \A n \in (m + 1)..Len(p) : p[n] # "/"
               ELSE 0
        head == SubSeq(p, 1, cut)
    IN  IF head # <<>> /\ \E k \in 1..Len(head) : head[k] # "/"
        THEN rstrip(head, "/")
        ELSE head

\* The loop of os.path.normpath over the components.
RECURSIVE normcomps(_, _, _)
normcomps(comps, new_comps, initial_slashes) ==
    IF comps = <<>> THEN new_comps
    ELSE LET comp == Head(comps)
             n == Len(new_comps)
         IN  IF comp = <<>> \/ comp = <<".">>
             THEN normcomps(Tail(comps), new_comps, initial_slashes)
             ELSE IF \/ comp # <<".", ".">>
                     \/ (~initial_slashes /\ n = 0)
                     \/ (n > 0 /\ new_comps[n] = <<".", ".">>)
             THEN normcomps(Tail(comps), Append(new_comps, comp), initial_slashes)
             ELSE IF n > 0
             THEN normcomps(Tail(comps), SubSeq(new_comps, 1, n - 1), initial_slashes)
             ELSE normcomps(Tail(comps), new_comps, initial_slashes)

\* os.path.normpath(p)
normpath(p) ==
    IF p = <<>> THEN <<".">>
    ELSE LET initial_slashes == isabs(p)
             joined == slashjoin(normcomps(split(p), <<>>, initial_slashes))
             path == IF initial_slashes THEN <<"/">> \o joined ELSE joined
         IN  IF path = <<>> THEN <<".">> ELSE path

\* os.path.abspath(p)
abspath(p) == normpath(IF isabs(p) THEN p ELSE join(cwd, p))

(***************************************************************************)
(* The filesystem. A file is [kind, readable, baseUrl, stmts]:             *)
(*   kind "source"     a source file, stmts its top-level statements       *)
(*   kind "object"     a tsconfig.json holding a JSON object whose         *)
(*                     compilerOptions.baseUrl is baseUrl (None: absent)   *)
(*   kind "malformed"  a tsconfig.json that json.load rejects              *)
(*   kind "other"      any other file                                      *)
(***************************************************************************)

Source(stmts) ==
    [kind |-> "source", readable |-> TRUE, baseUrl |-> None, stmts |-> stmts]

Unreadable ==
    [kind |-> "source", readable |-> FALSE, baseUrl |-> None, stmts |-> <<>>]

Tsconfig(baseUrl) ==
    [kind |-> "object", readable |-> TRUE, baseUrl |-> baseUrl, stmts |-> <<>>]

Malformed ==
    [kind |-> "malformed", readable |-> TRUE, baseUrl |-> None, stmts |-> <<>>]

Other ==
    [kind |-> "other", readable |-> TRUE, baseUrl |-> None, stmts |-> <<>>]

\* The directory `at` exists ("" is the root): an ancestor of a file or of
\* cwd, or cwd.
isdir_at(F, at) ==
    \/ startswith(cwd \o <<"/">>, at \o <<"/">>)
    \/ \E f \in DOMAIN F : startswith(f, at \o <<"/">>)

\* The kernel's walk of a path, component by component, from directory `at`.
RECURSIVE lookup(_, _, _)
lookup(F, at, comps) ==
    IF comps = <<>> THEN [found |-> TRUE, at |-> at]
    ELSE IF ~isdir_at(F, at) THEN [found |-> FALSE, at |-> at]
    ELSE LET comp == Head(comps)
         IN  IF comp = <<>> \/ comp = <<".">>
             THEN lookup(F, at, Tail(comps))
             ELSE IF comp = <<".", ".">>
             THEN lookup(F, IF dirname(at) = <<"/">> THEN <<>> ELSE dirname(at),
                         Tail(comps))
             ELSE lookup(F, at \o <<"/">> \o comp, Tail(comps))

\* os.path.isfile(p)
isfile(F, p) ==
    LET r == lookup(F, IF isabs(p) THEN <<>> ELSE cwd, split(p))
    IN  /\ p # <<>>
        /\ r.found
        /\ r.at \in DOMAIN F

(***************************************************************************)
(* tools/get_imports_from_file.py: the config locator and the resolver.    *)
(***************************************************************************)

TSCONFIG_JSON == <<"t", "s", "c", "o", "n", "f", "i", "g", ".", "j", "s", "o", "n">>

\* The body of the while loop of get_tsconfig_base_url.
RECURSIVE tsconfig_walk(_, _)
tsconfig_walk(F, current_dir) ==
    LET tsconfig_path == join(current_dir, TSCONFIG_JSON)
        parsed == /\ isfile(F, tsconfig_path)
                  /\ F[tsconfig_path].readable
                  /\ F[tsconfig_path].kind = "object"
        parent == dirname(current_dir)
    IN  IF parsed THEN F[tsconfig_path].baseUrl
        ELSE IF parent = current_dir THEN None
        ELSE tsconfig_walk(F, parent)

get_tsconfig_base_url(F, start_dir) == tsconfig_walk(F, abspath(start_dir))

potential_extensions ==
    << <<".", "t", "s">>, <<".", "t", "s", "x">>, <<".", "j", "s">>,
       <<".", "j", "s", "x">> >>

INDEX == <<"i", "n", "d", "e", "x">>

\* Step 1 of resolve_import_path: the "@/" alias.
alias_import_path(F, base_dir, import_path) ==
    IF startswith(import_path, <<"@", "/">>)
    THEN LET base_url == get_tsconfig_base_url(F, base_dir)
             rest == SubSeq(import_path, 3, Len(import_path))
         IN  IF base_url # None /\ base_url # <<>>
             THEN join(base_url, rest)
             ELSE rest
    ELSE import_path

\* Step 2: the candidates import_path + ext, in the order they are tried.
direct_candidates(base_dir, import_path) ==
    [e \in 1..Len(potential_extensions) |->
        join(base_dir, import_path \o potential_extensions[e])]

\* Step 3: the candidates import_path/index + ext, in the order they are tried.
index_candidates(base_dir, import_path) ==
    [e \in 1..Len(potential_extensions) |->
        join(join(base_dir, import_path), INDEX \o potential_extensions[e])]

\* One `for ext in potential_extensions` loop: the first candidate that is a
\* file, absolutized; None when the loop falls through.
first_file(F, cands) ==
    IF \E k \in 1..Len(cands) : isfile(F, cands[k])
    THEN abspath(cands[CHOOSE k \in 1..Len(cands) :
                     /\ isfile(F, cands[k])
                     /\ \A m \in 1..(k - 1) : ~isfile(F, cands[m])])
    ELSE None

\* A resolver that looks for the index file before the direct file.
resolve_index_first(F, base_dir, import_path) ==
    LET aliased == alias_import_path(F, base_dir, import_path)
        index == first_file(F, index_candidates(base_dir, aliased))
    IN  IF index # None THEN index
        ELSE first_file(F, direct_candidates(base_dir, aliased))

resolve_import_path(F, base_dir, import_path) ==
    LET aliased == alias_import_path(F, base_dir, import_path)
        direct == first_file(F, direct_candidates(base_dir, aliased))
    IN  IF direct # None THEN direct
        ELSE first_file(F, index_candidates(base_dir, aliased))

\* The body of the while loop of find_tsconfig_json.
RECURSIVE find_walk(_, _)
find_walk(F, current_dir) ==
    LET tsconfig_path == join(current_dir, TSCONFIG_JSON)
        parent_dir == dirname(current_dir)
    IN  IF isfile(F, tsconfig_path) THEN tsconfig_path
        ELSE IF parent_dir = current_dir THEN None
        ELSE find_walk(F, parent_dir)

find_tsconfig_json(F, start_dir) == find_walk(F, abspath(start_dir))

\* parse_tsconfig: json.load is called outside any try, so what it raises
\* leaves the function.
parse_tsconfig(F, tsconfig_path) ==
    IF tsconfig_path = None \/ ~isfile(F, tsconfig_path)
    THEN [raised |-> "", baseUrl |-> None, tsconfigDir |-> None]
    ELSE IF ~F[tsconfig_path].readable
    THEN [raised |-> "OSError", baseUrl |-> None, tsconfigDir |-> None]
    ELSE IF F[tsconfig_path].kind # "object"
    THEN [raised |-> "JSONDecodeError", baseUrl |-> None, tsconfigDir |-> None]
    ELSE [raised |-> "", baseUrl |-> F[tsconfig_path].baseUrl,
          tsconfigDir |-> dirname(abspath(tsconfig_path))]

(***************************************************************************)
(* tools/get_imports_from_file.py: the scanner. A parse tree node is        *)
(* [type, text, children]; the text of a string node is the literal with   *)
(* its quotes. A source file holds the children of its program node.       *)
(***************************************************************************)

Leaf(type, text) == [type |-> type, text |-> text, children |-> <<>>]

\* parse_file: the tree of a file that can be read.
parse_file(F, file_path) ==
    [type |-> "program", text |-> <<>>, children |-> F[abspath(file_path)].stmts]

\* traverse_tree: the nodes, each once, a node before its children and the
\* children in order.
RECURSIVE traverse_tree(_)
RECURSIVE traverse_all(_)
traverse_tree(node) == <<node>> \o traverse_all(node.children)
traverse_all(children) ==
    IF children = <<>> THEN <<>>
    ELSE traverse_tree(Head(children)) \o traverse_all(Tail(children))

\* `if import_path_node:` a child of type "string" was found.
has_import_path_node(node) ==
    \E k \in DOMAIN node.children : node.children[k].type = "string"

\* The first child of type "string" of an import statement.
import_path_node(node) ==
    node.children[CHOOSE k \in DOMAIN node.children :
        /\ node.children[k].type = "string"
        /\ \A m \in 1..(k - 1) : node.children[m].type # "string"]

NEXT_PREFIX == <<"n", "e", "x", "t">>

\* A scanner that drops the local specifiers it cannot resolve.
imports_without_fallback(F, base_dir, import_path) ==
    IF startswith(import_path, NEXT_PREFIX) THEN <<>>
    ELSE IF \/ startswith(import_path, <<".">>)
            \/ startswith(import_path, <<"/">>)
            \/ startswith(import_path, <<"@">>)
    THEN LET full_path == resolve_import_path(F, base_dir, import_path)
         IN  IF full_path # None THEN <<full_path>> ELSE <<>>
    ELSE <<import_path>>

\* What one import statement appends to imports_info["imports"].
imports_of_specifier(F, base_dir, import_path) ==
    IF startswith(import_path, NEXT_PREFIX) THEN <<>>
    ELSE IF \/ startswith(import_path, <<".">>)
            \/ startswith(import_path, <<"/">>)
            \/ startswith(import_path, <<"@">>)
    THEN LET full_path == resolve_import_path(F, base_dir, import_path)
         IN  IF full_path # None THEN <<full_path>> ELSE <<import_path>>
    ELSE <<import_path>>

\* The body of `for node in traverse_tree(tree)`, over the nodes left.
RECURSIVE scan_nodes(_, _, _)
scan_nodes(F, base_dir, tree_nodes) ==
    IF tree_nodes = <<>> THEN <<>>
    ELSE LET node == Head(tree_nodes)
             rest == scan_nodes(F, base_dir, Tail(tree_nodes))
         IN  IF node.type = "import_statement" /\ has_import_path_node(node)
             THEN LET raw_text == import_path_node(node).text
                      import_path == strip(strip(raw_text, "\""), "'")
                  IN  imports_of_specifier(F, base_dir, import_path) \o rest
             ELSE rest

\* extract_imports: the record, or what read_file_bytes raised.
extract_imports(F, file_path) ==
    IF ~isfile(F, file_path)
    THEN [raised |-> "FileNotFoundError", file |-> file_path, imports |-> <<>>]
    ELSE IF ~F[abspath(file_path)].readable
    THEN [raised |-> "PermissionError", file |-> file_path, imports |-> <<>>]
    ELSE [raised |-> "", file |-> file_path,
          imports |-> scan_nodes(F, dirname(file_path),
                                 traverse_tree(parse_file(F, file_path)))]

(***************************************************************************)
(* The graph store: File nodes, identified by their path property (MERGE   *)
(* on the key "path"), and IMPORTS relationships, identified by their end  *)
(* nodes (MERGE of the relationship). A store is [nodes, edges].           *)
(***************************************************************************)

\* graph.delete_all()
delete_all(G) == [nodes |-> {}, edges |-> {}]

\* tx.merge(NeoNode("File", path=path), "File", "path")
merge_node(G, path) == [G EXCEPT !.nodes = @ \cup {path}]

\* tx.merge(Relationship(file_node, "IMPORTS", target_node))
merge_rel(G, source, target) == [G EXCEPT !.edges = @ \cup {<<source, target>>}]

\* The inner loop of create_file_dependency_graph: for imported_file in imports.
RECURSIVE merge_imports(_, _, _)
merge_imports(G, source_file, imports) ==
    IF imports = <<>> THEN G
    ELSE LET imported_file == Head(imports)
         IN  IF imported_file = <<>>
             THEN merge_imports(G, source_file, Tail(imports))
             ELSE merge_imports(
                      merge_rel(merge_node(G, imported_file), source_file, imported_file),
                      source_file, Tail(imports))

\* The outer loop: for fi in files_import_info.
RECURSIVE merge_records(_, _)
merge_records(G, files_import_info) ==
    IF files_import_info = <<>> THEN G
    ELSE LET fi == Head(files_import_info)
         IN  merge_records(
                 merge_imports(merge_node(G, fi.file), fi.file, fi.imports),
                 Tail(files_import_info))

\* A graph builder that does not wipe the store first.
create_without_delete_all(G, files_import_info) ==
    merge_records(G, files_import_info)

create_file_dependency_graph(G, files_import_info) ==
    merge_records(delete_all(G), files_import_info)

(***************************************************************************)
(* tools/get_app_folder_dependencies.py                                    *)
(***************************************************************************)

APP == <<"/", "a", "p", "p", "/">>

\* MATCH (f)-[:IMPORTS*1..]->(dep): one row per path that repeats no
\* relationship. The rows' dep, in the order a depth-first expansion that
\* tries the targets in `order` produces them; k is the next target to try.
RECURSIVE match_rows(_, _, _, _, _)
match_rows(E, order, cur, used, k) ==
    IF k > Len(order) THEN <<>>
    ELSE LET rel == <<cur, order[k]>>
         IN  (IF rel \in E \ used
              THEN <<order[k]>> \o match_rows(E, order, order[k], used \cup {rel}, 1)
              ELSE <<>>)
             \o match_rows(E, order, cur, used, k + 1)

\* collect(DISTINCT dep.path)
RECURSIVE collect_distinct(_)
collect_distinct(rows) ==
    IF rows = <<>> THEN <<>>
    ELSE LET rest == collect_distinct(SubSeq(rows, 1, Len(rows) - 1))
             last == rows[Len(rows)]
         IN  IF \E k \in 1..Len(rest) : rest[k] = last THEN rest
             ELSE Append(rest, last)

\* list.remove(x): the first occurrence of x removed.
remove(list, x) ==
    LET k == CHOOSE m \in 1..Len(list) :
                 list[m] = x /\ \A n \in 1..(m - 1) : list[n] # x
    IN  SubSeq(list, 1, k - 1) \o SubSeq(list, k + 1, Len(list))

\* The query's dependencies column for f.
query_dependencies(G, order, f) ==
    collect_distinct(match_rows(G.edges, order, f, {}, 1))

\* A query result that keeps the file's own path.
dependencies_without_remove(G, order, file_path) ==
    query_dependencies(G, order, file_path)

\* The body of `for record in results`: dependency_map[file_path].
dependencies_of(G, order, file_path) ==
    LET deps0 == query_dependencies(G, order, file_path)
    IN  IF \E k \in 1..Len(deps0) : deps0[k] = file_path
        THEN remove(deps0, file_path)
        ELSE deps0

\* The store gives the query's rows in an order of its own: `order` lists the
\* nodes in the order the store expands them.
get_app_folder_dependencies(G, order) ==
    [f \in {n \in G.nodes : contains(n, APP)} |-> dependencies_of(G, order, f)]

(***************************************************************************)
(* tools/get_feature_summary.py                                            *)
(***************************************************************************)

SENTINEL == "Error or no response from LLM."

\* generate_feature_summary: the files are read into the prompt (a file that
\* cannot be read is left out), then the completion is requested; `response`
\* is what the service does with the request.
generate_feature_summary(file_list, response) ==
    IF response = "error" THEN SENTINEL ELSE "summary"

(***************************************************************************)
(* main.py                                                                 *)
(***************************************************************************)

code_dir ==
    <<"f", "u", "l", "l", "-", "s", "t", "a", "c", "k", "-", "n", "e", "x", "t",
      "j", "s", "/", "a", "p", "p">>

\* os.walk(code_dir): join(root, f) of every file below code_dir.
walked(F) ==
    LET top == abspath(code_dir) \o <<"/">>
    IN  { join(code_dir, SubSeq(f, Len(top) + 1, Len(f))) :
            f \in {g \in DOMAIN F : startswith(g, top)} }

\* The filter of main.py:30, over the files in the order os.walk lists them.
ts_filter(listing) ==
    SelectSeq(listing, LAMBDA f : endswith(f, <<".", "t", "s">>)
                                  \/ endswith(f, <<".", "t", "s", "x">>))

\* dependency_map.items(): a record has the keys "file" and "imports".
items(dependency_map) ==
    << <<"file", dependency_map.file>>, <<"imports", dependency_map.imports>> >>

\* main.py:15-22
MainQuery(order) ==
    /\ pc = "query"
    /\ deps' = [ran |-> TRUE,
                map |-> get_app_folder_dependencies(
                            [nodes |-> nodes, edges |-> edges], order)]
    /\ pc' = "walk"
    /\ UNCHANGED <<fs, nodes, edges, runs, resolverVars,
                   ts_files, dependencies, idx, item, outfile>>

\* main.py:27-31
Walk(listing) ==
    /\ pc = "walk"
    /\ ts_files' = ts_filter(listing)
    /\ pc' = "scan"
    /\ idx' = 1
    /\ UNCHANGED <<fs, nodes, edges, graphVars, resolverVars,
                   dependencies, item, outfile>>

\* main.py:34-36, one iteration; an exception of extract_imports ends the
\* script.
ScanFile ==
    /\ pc = "scan"
    /\ idx <= Len(ts_files)
    /\ LET info == extract_imports(fs, ts_files[idx])
       IN  IF info.raised # ""
           THEN /\ pc' = "crashed"
                /\ UNCHANGED <<dependencies, idx>>
           ELSE /\ dependencies' =
                       Append(dependencies, [file |-> info.file, imports |-> info.imports])
                /\ idx' = idx + 1
                /\ pc' = pc
    /\ UNCHANGED <<fs, nodes, edges, graphVars, resolverVars, ts_files, item, outfile>>

\* main.py:38-41, then the output file is opened.
MainCreateGraph ==
    /\ pc = "scan"
    /\ idx > Len(ts_files)
    /\ LET G == create_file_dependency_graph(
                    [nodes |-> nodes, edges |-> edges], dependencies)
       IN  /\ nodes' = G.nodes
           /\ edges' = G.edges
    /\ runs' = runs + 1
    /\ pc' = "summarize"
    /\ idx' = 1
    /\ item' = 1
    /\ outfile' = <<>>
    /\ UNCHANGED <<fs, deps, resolverVars, ts_files, dependencies>>

\* main.py:46-59, one iteration of the inner loop.
Summarize(response) ==
    /\ pc = "summarize"
    /\ idx <= Len(dependencies)
    /\ LET dependency_map == dependencies[idx]
           main_file == dependency_map.file
           all_files_for_feature == <<main_file>> \o dependency_map.imports
           summary == generate_feature_summary(all_files_for_feature, response)
       IN  /\ outfile' = Append(outfile, [header |-> main_file, body |-> summary])
           /\ IF item < Len(items(dependency_map))
              THEN item' = item + 1 /\ idx' = idx
              ELSE item' = 1 /\ idx' = idx + 1
    /\ UNCHANGED <<fs, nodes, edges, graphVars, resolverVars, pc, ts_files, dependencies>>

\* The loops are over: the with block closes the file and the script ends.
Finish ==
    /\ pc = "summarize"
    /\ idx > Len(dependencies)
    /\ pc' = "done"
    /\ UNCHANGED <<fs, nodes, edges, graphVars, resolverVars,
                   ts_files, dependencies, idx, item, outfile>>

(***************************************************************************)
(* The states the parts of the program that a specification leaves out     *)
(* stay in.                                                                *)
(***************************************************************************)

NoCall == [op |-> "none", dir |-> <<>>, spec |-> <<>>]
NoConfig == [raised |-> "", baseUrl |-> None, tsconfigDir |-> None]
NoDeps == [ran |-> FALSE, map |-> <<>>]

ResolverIdle ==
    /\ call = NoCall
    /\ resolved = None
    /\ config = NoConfig

GraphIdle ==
    /\ runs = 0
    /\ deps = NoDeps

MainIdle ==
    /\ pc = "off"
    /\ ts_files = <<>>
    /\ dependencies = <<>>
    /\ idx = 0
    /\ item = 0
    /\ outfile = <<>>

(***************************************************************************)
(* SpecResolve: the resolver and the config locator, called on any         *)
(* importer directory and specifier over a bounded family of filesystems.  *)
(* The project is /w/p with a subdirectory a; each of the two directories  *)
(* holds a source file, and either has no tsconfig.json, a malformed one,  *)
(* one without baseUrl or one with baseUrl "s". The other files are any    *)
(* subset of the eight candidates x.<ext>, x/index.<ext> of one stem.      *)
(***************************************************************************)

ProjectDir == <<"/", "w", "/", "p">>
SubDir == <<"/", "w", "/", "p", "/", "a">>

Importers ==
    { ProjectDir \o <<"/", "m", ".", "t", "s">>,
      SubDir \o <<"/", "n", ".", "t", "s">> }

Stems ==
    { ProjectDir \o <<"/", "x">>,
      SubDir \o <<"/", "x">>,
      ProjectDir \o <<"/", "s", "/", "x">>,
      SubDir \o <<"/", "s", "/", "x">> }

\* The eight files a stem can name, in no particular order.
StemFiles(stem) ==
    { stem \o <<".", "j", "s">>, stem \o <<".", "j", "s", "x">>,
      stem \o <<".", "t", "s">>, stem \o <<".", "t", "s", "x">>,
      stem \o <<"/", "i", "n", "d", "e", "x", ".", "j", "s">>,
      stem \o <<"/", "i", "n", "d", "e", "x", ".", "j", "s", "x">>,
      stem \o <<"/", "i", "n", "d", "e", "x", ".", "t", "s">>,
      stem \o <<"/", "i", "n", "d", "e", "x", ".", "t", "s", "x">> }

TsconfigStates == {"absent", "malformed", "nobaseurl", "baseurl"}

TsconfigFile(state) ==
    IF state = "malformed" THEN Malformed
    ELSE IF state = "nobaseurl" THEN Tsconfig(None)
    ELSE Tsconfig(<<"s">>)

ResolveFs(present, tp, ta) ==
    LET cp == join(ProjectDir, TSCONFIG_JSON)
        ca == join(SubDir, TSCONFIG_JSON)
        dom == Importers \cup present
                 \cup (IF tp = "absent" THEN {} ELSE {cp})
                 \cup (IF ta = "absent" THEN {} ELSE {ca})
    IN  [f \in dom |->
            IF f = cp THEN TsconfigFile(tp)
            ELSE IF f = ca THEN TsconfigFile(ta)
            ELSE IF f \in Importers THEN Source(<<>>)
            ELSE Other]

\* base_dir as main.py passes it (relative to cwd), and absolute.
BaseDirs == { <<"p">>, <<"p", "/", "a">>, SubDir }

\* At most this many of a stem's files exist.
MaxFiles == 3

ResolveSpecifiers == { <<"@", "/", "x">>, <<".", "/", "x">> }

InitResolve ==
    /\ \E stem \in Stems :
       \E present \in {S \in SUBSET StemFiles(stem) : Cardinality(S) <= MaxFiles} :
       \E tp \in TsconfigStates : \E ta \in TsconfigStates :
            fs = ResolveFs(present, tp, ta)
    /\ nodes = {}
    /\ edges = {}
    /\ ResolverIdle
    /\ GraphIdle
    /\ MainIdle

\* Each behaviour makes one call: the functions read the filesystem and leave
\* it alone, so a second call would only repeat the first on the same input.
Resolve(base_dir, import_path) ==
    /\ call = NoCall
    /\ call' = [op |-> "resolve", dir |-> base_dir, spec |-> import_path]
    /\ resolved' = resolve_import_path(fs, base_dir, import_path)
    /\ config' = NoConfig
    /\ UNCHANGED <<fs, nodes, edges, graphVars, mainVars>>

LocateConfig(start_dir) ==
    /\ call = NoCall
    /\ call' = [op |-> "locate", dir |-> start_dir, spec |-> <<>>]
    /\ config' = parse_tsconfig(fs, find_tsconfig_json(fs, start_dir))
    /\ resolved' = None
    /\ UNCHANGED <<fs, nodes, edges, graphVars, mainVars>>

NextResolve ==
    \/ \E d \in BaseDirs : \E s \in ResolveSpecifiers : Resolve(d, s)
    \/ \E d \in BaseDirs : LocateConfig(d)

SpecResolve == InitResolve /\ [][NextResolve]_vars

(***************************************************************************)
(* SpecGraph: create_file_dependency_graph run, and run again, on any list *)
(* of up to MaxRecords import records, over a store with prior contents.   *)
(* The records are main.py's `dependencies`.                               *)
(***************************************************************************)

FileA == <<"/", "w", "/", "a", "p", "p", "/", "a", ".", "t", "s">>
FileB == <<"/", "w", "/", "a", "p", "p", "/", "b", ".", "t", "s">>
FileC == <<"/", "w", "/", "l", "i", "b", "/", "c", ".", "t", "s">>
FileOld == <<"/", "w", "/", "a", "p", "p", "/", "o", "l", "d", ".", "t", "s">>

\* Import lists: empty, one import, a file importing itself or its importer,
\* the same import twice, an empty string.
GraphImportLists ==
    { <<>>, <<FileA>>, <<FileB>>, <<FileB, FileC>>, <<FileB, FileB>>,
      <<<<>>, FileC>> }

GraphRecords ==
    { [file |-> f, imports |-> l] : f \in {FileA, FileB}, l \in GraphImportLists }

MaxRecords == 2

RecordLists ==
    UNION { [1..n -> GraphRecords] : n \in 0..MaxRecords }

PriorStores ==
    { [nodes |-> {}, edges |-> {}],
      [nodes |-> {FileOld}, edges |-> {}],
      [nodes |-> {FileA, FileOld}, edges |-> {<<FileOld, FileA>>, <<FileA, FileA>>}] }

MaxRuns == 2

InitGraph ==
    /\ fs = <<>>
    /\ \E G \in PriorStores : nodes = G.nodes /\ edges = G.edges
    /\ dependencies \in RecordLists
    /\ runs = 0
    /\ deps = NoDeps
    /\ pc = "off"
    /\ ts_files = <<>>
    /\ idx = 0
    /\ item = 0
    /\ outfile = <<>>
    /\ ResolverIdle

\* main.py:38, and the same call made again.
CreateFileDependencyGraph ==
    /\ runs < MaxRuns
    /\ LET G == create_file_dependency_graph(
                    [nodes |-> nodes, edges |-> edges], dependencies)
       IN  /\ nodes' = G.nodes
           /\ edges' = G.edges
    /\ runs' = runs + 1
    /\ deps' = NoDeps
    /\ UNCHANGED <<fs, resolverVars, mainVars>>

NextGraph == CreateFileDependencyGraph

SpecGraph == InitGraph /\ [][NextGraph]_vars

(***************************************************************************)
(* SpecQuery: get_app_folder_dependencies on any store over three files,   *)
(* two of them under /app/: every graph of up to MaxEdges edges, with      *)
(* self-loops, cycles and several paths to one file.                       *)
(***************************************************************************)

QueryFiles == {FileA, FileB, FileC}

\* The orders of a set of nodes.
Orders(S) ==
    { q \in [1..Cardinality(S) -> S] : \A x \in S : \E k \in DOMAIN q : q[k] = x }

\* At most this many IMPORTS edges in the store.
MaxEdges == 5

InitQuery ==
    /\ fs = <<>>
    /\ nodes \in SUBSET QueryFiles
    /\ edges \in {E \in SUBSET (nodes \X nodes) : Cardinality(E) <= MaxEdges}
    /\ runs = 0
    /\ deps = NoDeps
    /\ ResolverIdle
    /\ MainIdle

\* The query reads the store and changes nothing in it; it is run once.
GetAppFolderDependencies(order) ==
    /\ ~deps.ran
    /\ deps' = [ran |-> TRUE,
                map |-> get_app_folder_dependencies(
                            [nodes |-> nodes, edges |-> edges], order)]
    /\ UNCHANGED <<fs, nodes, edges, runs, resolverVars, mainVars>>

NextQuery == \E order \in Orders(nodes) : GetAppFolderDependencies(order)

SpecQuery == InitQuery /\ [][NextQuery]_vars

(***************************************************************************)
(* The source tree of SpecScan and Spec: code_dir holds a.tsx, b.tsx and a *)
(* stylesheet; the project directory above it may hold a tsconfig.json.    *)
(***************************************************************************)

DQ(s) == <<"\"">> \o s \o <<"\"">>
SQ(s) == <<"'">> \o s \o <<"'">>

\* import ... from <literal>
ImportStatement(literal) ==
    [type |-> "import_statement", text |-> <<>>,
     children |-> << Leaf("import", <<>>), Leaf("import_clause", <<>>),
                     Leaf("from", <<>>), Leaf("string", literal) >>]

\* require(<literal>);
CallStatement(literal) ==
    [type |-> "expression_statement", text |-> <<>>,
     children |-> << [type |-> "call_expression", text |-> <<>>,
                      children |-> << Leaf("identifier", <<>>),
                                      [type |-> "arguments", text |-> <<>>,
                                       children |-> <<Leaf("string", literal)>>] >>] >>]

LocalB == <<".", "/", "b">>
LocalA == <<".", "/", "a">>
LocalMissing == <<".", "/", "z", "z">>
AliasB == <<"@", "/", "b">>
Lodash == <<"l", "o", "d", "a", "s", "h">>
NextRouter == <<"n", "e", "x", "t", "/", "r", "o", "u", "t", "e", "r">>

Statements ==
    { ImportStatement(DQ(LocalB)), ImportStatement(SQ(Lodash)),
      ImportStatement(DQ(NextRouter)), ImportStatement(SQ(AliasB)),
      ImportStatement(DQ(LocalMissing)), CallStatement(DQ(LocalB)) }

\* A scanned file holds at most this many statements.
MaxImports == 3

StatementLists == UNION { [1..n -> Statements] : n \in 0..MaxImports }

PathA == join(code_dir, <<"a", ".", "t", "s", "x">>)
PathB == join(code_dir, <<"b", ".", "t", "s", "x">>)
PathCss == join(code_dir, <<"s", ".", "c", "s", "s">>)
PathTsconfig == join(dirname(code_dir), TSCONFIG_JSON)

Absent == [kind |-> "absent", readable |-> FALSE, baseUrl |-> None, stmts |-> <<>>]

\* A filesystem from the files given as <<path, file>>; Absent leaves one out.
TreeFs(entries) ==
    [f \in {abspath(e[1]) : e \in {d \in entries : d[2] # Absent}} |->
        (CHOOSE e \in entries : abspath(e[1]) = f)[2]]

(***************************************************************************)
(* SpecScan: the scan loop of main.py over a.tsx, holding any list of up   *)
(* to MaxImports statements, and b.tsx when it exists.                     *)
(***************************************************************************)

InitScan ==
    /\ \E sa \in StatementLists :
       \E b \in {Absent, Source(<<ImportStatement(SQ(LocalA))>>)} :
       \E t \in {Absent, Tsconfig(<<"a", "p", "p">>)} :
            fs = TreeFs({<<PathA, Source(sa)>>, <<PathB, b>>, <<PathCss, Other>>,
                         <<PathTsconfig, t>>})
    /\ ts_files \in Orders({f \in {PathA, PathB} : isfile(fs, f)})
    /\ pc = "scan"
    /\ idx = 1
    /\ item = 0
    /\ dependencies = <<>>
    /\ outfile = <<>>
    /\ nodes = {}
    /\ edges = {}
    /\ runs = 0
    /\ deps = NoDeps
    /\ ResolverIdle

NextScan == ScanFile

SpecScan == InitScan /\ [][NextScan]_vars

(***************************************************************************)
(* Spec: main.py from its first line to its last, over a store with prior  *)
(* contents and a source tree whose files may be unreadable.               *)
(***************************************************************************)

MainFilesA ==
    { Unreadable, Source(<<>>), Source(<<ImportStatement(DQ(LocalB))>>),
      Source(<<ImportStatement(DQ(LocalB)), ImportStatement(SQ(Lodash)),
               ImportStatement(DQ(NextRouter))>>) }

MainFilesB ==
    { Absent, Unreadable, Source(<<ImportStatement(SQ(LocalA))>>) }

Init ==
    /\ \E a \in MainFilesA : \E b \in MainFilesB :
       \E t \in {Absent, Tsconfig(<<"a", "p", "p">>)} :
            fs = TreeFs({<<PathA, a>>, <<PathB, b>>, <<PathCss, Other>>,
                         <<PathTsconfig, t>>})
    /\ \E G \in PriorStores : nodes = G.nodes /\ edges = G.edges
    /\ pc = "query"
    /\ ts_files = <<>>
    /\ dependencies = <<>>
    /\ idx = 0
    /\ item = 0
    /\ outfile = <<>>
    /\ runs = 0
    /\ deps = NoDeps
    /\ ResolverIdle

Next ==
    \/ \E order \in Orders(nodes) : MainQuery(order)
    \/ \E listing \in Orders(walked(fs)) : Walk(listing)
    \/ ScanFile
    \/ MainCreateGraph
    \/ \E response \in {"completion", "error"} : Summarize(response)
    \/ Finish

Spec == Init /\ [][Next]_vars

(***************************************************************************)
(* Claims about the resolver, under SpecResolve.                           *)
(***************************************************************************)

\* The nearest tsconfig.json above the importer directory of the last call.
NearestConfig(dir) == find_tsconfig_json(fs, dir)

HasBaseUrl(path) ==
    /\ path # None
    /\ fs[path].kind = "object"
    /\ fs[path].baseUrl # None
    /\ fs[path].baseUrl # <<>>

AliasCall ==
    /\ call.op = "resolve"
    /\ startswith(call.spec, <<"@", "/">>)

\* C1: an "@/" specifier resolves to the same result from every importer
\* directory under the same nearest tsconfig.json with a baseUrl, and the
\* result lies under the directory of that tsconfig.json joined with baseUrl.
C1_AliasIndependentOfImporter ==
    (AliasCall /\ HasBaseUrl(NearestConfig(call.dir))) =>
        LET cfg == NearestConfig(call.dir)
            base == abspath(join(dirname(cfg), fs[cfg].baseUrl))
        IN  /\ resolved # None => startswith(resolved, base \o <<"/">>)
            /\ \A d \in BaseDirs :
                  NearestConfig(d) = cfg =>
                      resolve_import_path(fs, d, call.spec) = resolved

\* The candidate c of the last call: the specifier after the alias step,
\* joined to the importer directory.
CandidateOfCall ==
    join(call.dir, alias_import_path(fs, call.dir, call.spec))

\* c.ts, c.tsx, c.js, c.jsx, c/index.ts, c/index.tsx, c/index.js, c/index.jsx
PrecedenceList(c) ==
    << c \o <<".", "t", "s">>,
       c \o <<".", "t", "s", "x">>,
       c \o <<".", "j", "s">>,
       c \o <<".", "j", "s", "x">>,
       c \o <<"/", "i", "n", "d", "e", "x", ".", "t", "s">>,
       c \o <<"/", "i", "n", "d", "e", "x", ".", "t", "s", "x">>,
       c \o <<"/", "i", "n", "d", "e", "x", ".", "j", "s">>,
       c \o <<"/", "i", "n", "d", "e", "x", ".", "j", "s", "x">> >>

\* C2: resolve_import_path returns the first path of c.ts, c.tsx, c.js,
\* c.jsx, c/index.ts, c/index.tsx, c/index.js, c/index.jsx that is a file (as
\* an absolute path), and None when none of them is a file.
C2_FirstExistingInFixedOrder ==
    call.op = "resolve" =>
        LET list == PrecedenceList(CandidateOfCall)
            hits == {k \in 1..Len(list) : isfile(fs, list[k])}
        IN  /\ hits = {} => resolved = None
            /\ hits # {} =>
                  \E k \in hits :
                      /\ \A m \in hits : k <= m
                      /\ resolved = abspath(list[k])

\* A call that found both x.tsx and x/index.tsx and returned x.tsx.
C2_Witness ==
    /\ call.op = "resolve"
    /\ isfile(fs, CandidateOfCall \o <<".", "t", "s", "x">>)
    /\ isfile(fs, CandidateOfCall \o <<"/", "i", "n", "d", "e", "x", ".", "t", "s", "x">>)
    /\ resolved = abspath(CandidateOfCall \o <<".", "t", "s", "x">>)

\* The filesystem without any tsconfig.json.
WithoutConfigs(F) ==
    [f \in {g \in DOMAIN F : ~endswith(g, <<"/">> \o TSCONFIG_JSON)} |-> F[f]]

NearestIsMalformed(dir) ==
    /\ NearestConfig(dir) # None
    /\ fs[NearestConfig(dir)].kind = "malformed"

\* C8: when the nearest tsconfig.json above the importer is malformed, the
\* lookup raises nothing and gives no baseUrl, and an "@/" specifier resolves
\* as it does on the same filesystem without any tsconfig.json.
C8_MalformedAsNotFound ==
    (AliasCall /\ NearestIsMalformed(call.dir)) =>
        /\ get_tsconfig_base_url(fs, call.dir) = None
        /\ resolved = resolve_import_path(WithoutConfigs(fs), call.dir, call.spec)

(***************************************************************************)
(* Claims about the graph builder, under SpecGraph.                        *)
(***************************************************************************)

\* The File nodes a list of records names: each record's file and each
\* non-empty import.
RecordNodes(recs) ==
    {recs[k].file : k \in DOMAIN recs}
        \cup UNION { {recs[k].imports[m] : m \in DOMAIN recs[k].imports} \ {<<>>} :
                     k \in DOMAIN recs }

\* The IMPORTS edges a list of records names.
RecordEdges(recs) ==
    UNION { {<<recs[k].file, recs[k].imports[m]>> :
                m \in {n \in DOMAIN recs[k].imports : recs[k].imports[n] # <<>>}} :
            k \in DOMAIN recs }

\* C4: a run of create_file_dependency_graph leaves exactly the nodes and
\* edges of its records in the store, whatever the store held, and a second
\* run on the same records changes neither the nodes nor the edges.
C4_RebuildIdempotent ==
    [][CreateFileDependencyGraph =>
          /\ nodes' = RecordNodes(dependencies)
          /\ edges' = RecordEdges(dependencies)
          /\ runs >= 1 => (nodes' = nodes /\ edges' = edges)]_vars

\* The second run on records that make edges has happened.
C4_Witness ==
    /\ runs = 2
    /\ Len(dependencies) = 2
    /\ edges # {}

\* C6: after a run of create_file_dependency_graph no IMPORTS edge joins a
\* File node to itself.
C6_NoSelfLoop ==
    runs >= 1 => \A e \in edges : e[1] # e[2]

(***************************************************************************)
(* Claims about the dependency query, under SpecQuery.                     *)
(***************************************************************************)

\* The nodes one IMPORTS edge away from a set of nodes.
Successors(S) == {e[2] : e \in {d \in edges : d[1] \in S}}

\* The nodes reachable from f by one or more IMPORTS edges.
RECURSIVE ReachFrom(_)
ReachFrom(S) ==
    IF Successors(S) \subseteq S THEN S ELSE ReachFrom(S \cup Successors(S))

Reachable(f) == ReachFrom(Successors({f}))

\* C5: for every File node f whose path contains "/app/", the list returned
\* for f has no duplicates and holds exactly the nodes reachable from f by
\* one or more IMPORTS edges, f itself excepted.
C5_TransitiveDepsWithoutSelf ==
    deps.ran =>
        /\ DOMAIN deps.map = {n \in nodes : contains(n, APP)}
        /\ \A f \in DOMAIN deps.map :
              LET list == deps.map[f]
              IN  /\ \A j, k \in DOMAIN list : list[j] = list[k] => j = k
                  /\ {list[k] : k \in DOMAIN list} = Reachable(f) \ {f}

\* A query over a cycle a -> b -> a: a's list holds b and not a.
C5_Witness ==
    /\ deps.ran
    /\ {<<FileA, FileB>>, <<FileB, FileA>>} \subseteq edges
    /\ FileA \in DOMAIN deps.map
    /\ \E k \in DOMAIN deps.map[FileA] : deps.map[FileA][k] = FileB
    /\ \A k \in DOMAIN deps.map[FileA] : deps.map[FileA][k] # FileA

(***************************************************************************)
(* Claims about the scanner, under SpecScan.                               *)
(***************************************************************************)

\* The specifier of an import statement: its string literal without the
\* quotes around it.
SpecifierOf(statement) ==
    LET literal == (CHOOSE c \in {statement.children[k] : k \in DOMAIN statement.children} :
                        c.type = "string").text
    IN  SubSeq(literal, 2, Len(literal) - 1)

\* The specifiers of the import statements of a file, in document order.
SpecifiersOf(file) ==
    LET imports == SelectSeq(fs[abspath(file)].stmts,
                             LAMBDA st : st.type = "import_statement")
    IN  [k \in DOMAIN imports |-> SpecifierOf(imports[k])]

LooksLocal(specifier) ==
    specifier # <<>> /\ specifier[1] \in {".", "/", "@"}

\* What the claim lists for the specifiers of a file scanned from base_dir.
RECURSIVE ExpectedImports(_, _)
ExpectedImports(base_dir, specifiers) ==
    IF specifiers = <<>> THEN <<>>
    ELSE LET sp == Head(specifiers)
             target == resolve_import_path(fs, base_dir, sp)
             entry == IF startswith(sp, <<"n", "e", "x", "t">>) THEN <<>>
                      ELSE IF LooksLocal(sp) /\ target # None THEN <<target>>
                      ELSE <<sp>>
         IN  entry \o ExpectedImports(base_dir, Tail(specifiers))

AfterRebuild == pc \in {"summarize", "done"}

\* C7: after the scan and the rebuild every File node that names a file is
\* an absolute normalized path, and no file is named by two File nodes.
C7_NodePathsAbsoluteNormalized ==
    AfterRebuild =>
        /\ \A n \in nodes : isfile(fs, n) => n = abspath(n)
        /\ \A n1, n2 \in nodes :
              (isfile(fs, n1) /\ isfile(fs, n2) /\ abspath(n1) = abspath(n2))
                  => n1 = n2

Readable(file) == fs[abspath(file)].readable

\* C9: once the scan loop is left, the script has not been aborted, and the
\* records of all the readable files, in scan order, went to the rebuild.
C9_UnreadableFileSkipped ==
    pc \notin {"query", "walk", "scan"} =>
        /\ pc # "crashed"
        /\ runs = 1
        /\ [k \in DOMAIN dependencies |-> dependencies[k].file]
               = SelectSeq(ts_files, Readable)

\* C10: when the run completes the output file holds one section per
\* scanned file, in scan order, headed by that file.
C10_OneSectionPerFile ==
    pc = "done" =>
        /\ Len(outfile) = Len(ts_files)
        /\ \A k \in DOMAIN outfile : outfile[k].header = ts_files[k]

====
